---- MODULE Spec2Model ----
(***************************************************************************)
(* Tool dispatch of the two chat agents (GeoAgent: map control,            *)
(* HelloWorldAgent: greeting).  A request is split where ask blocks on the *)
(* completion service: Call builds and sends the messages, Receive takes   *)
(* the provider's outcome through the rest of ask and hands the client how *)
(* ask ended, Collect lets the client start its next request.  The         *)
(* endpoints are synchronous functions without a lock, so the requests of  *)
(* different clients interleave freely.                                    *)
(*                                                                         *)
(* Python values are tagged records, so that values of different types can *)
(* be compared: None, [int |-> 5], [float |-> [m |-> 15, e |-> -1]] (the   *)
(* double 15 * 10^-1), [str |-> <<"a", "b">>] (a text as its fragments,   *)
(* in order), [list |-> <<..>>], [dict |-> <<<<k, v>>, ..>>] (a dict as its*)
(* items in insertion order).  A JSON text is the sequence of its lexical  *)
(* tokens, blanks included, on one line.  An exception is its class and    *)
(* the fragments of str(e).                                                *)
(***************************************************************************)
EXTENDS Integers, Sequences, FiniteSets, TLC

VARIABLES
    geo_agent,        \* server.py geo_agent: [tools, tool_specs]
    hello_agent,      \* server.py hello_agent: [tool_functions, tool_specs]
    default_history,  \* the list object that is GeoAgent.ask's default history
    pc,               \* per client: "idle", "sent" (blocked in completion), "done"
    call,             \* per client: the agent asked and, while ask runs, its arguments
    request,          \* per client: what the running ask handed to completion(...)
    response,         \* per client: what completion(...) produced
    outcome,          \* per client: how ask ended, [ret |-> result] or [raise |-> e]
    invoked           \* per client: the tool implementations ask called

vars == <<geo_agent, hello_agent, default_history, pc, call, request, response,
          outcome, invoked>>

----------------------------------------------------------------------------
(* Bounds *)

MaxHistoryLen == 2
MaxToolCalls == 2
NumCallers == 2

Callers == 1..NumCallers

\* the clients of the specification with every input: two at a time
Pair == {1, 2}

----------------------------------------------------------------------------
(* Python values *)

None == [none |-> TRUE]
PyBool(b) == [bool |-> b]
PyInt(n) == [int |-> n]

\* the number of decimal digits of n > 0
RECURSIVE Digits(_)
Digits(n) == IF n < 10 THEN 1 ELSE 1 + Digits(n \div 10)

RECURSIVE Pow10(_)
Pow10(n) == IF n = 0 THEN 1 ELSE 10 * Pow10(n - 1)

Abs(n) == IF n < 0 THEN 0 - n ELSE n

\* the decimal m * 10^e without trailing zeros in m, so that equal numbers
\* are equal values (1e3 = 1000.0)
RECURSIVE Normal(_, _)
Normal(m, e) ==
    IF m = 0 THEN [m |-> 0, e |-> 0]
    ELSE IF m % 10 = 0 THEN Normal(m \div 10, e + 1)
    ELSE [m |-> m, e |-> e]

\* float("nan"), float("inf"), float("-inf")
NonFinite(w) == [float |-> [nonfinite |-> w]]

\* 2^1074 in base 10^4, the lowest limb first: a double below 2^-1022 is a
\* multiple of 2^-1074
TwoTo1074 ==
    << 4784, 9349, 7410, 7707, 6330,   62, 8646, 2750, 1863,
       2532, 3050, 6152, 3414, 5233, 7695, 2358, 5651, 8100,
       6340, 5955, 6491, 3355, 1810, 6986, 4692, 8342,   74,
       8562, 4506, 4727, 7678, 3976, 3412, 3216, 4209, 9077,
       4466, 6136, 5663, 4276, 1742, 9215, 8509, 4073, 3999,
       7013, 7686, 7934, 7385,  873, 3898, 1911, 1681, 8643,
       7077, 9518, 1244, 1437, 8370, 9603, 6891, 9534, 5679,
        339, 2743, 3580, 6901, 1835, 1421, 9764, 5664,  495,
       7307, 1891, 3467, 2495, 1835, 3106, 3307,  225, 2024 >>

Limb1074(j) == IF j \in 0..(Len(TwoTo1074) - 1) THEN TwoTo1074[j + 1] ELSE 0

\* limb j of a * 2^1074 before the carries, a >= 0 split in base 10^4
Column(a, j) ==
    (a % 10000) * Limb1074(j)
    + ((a \div 10000) % 10000) * Limb1074(j - 1)
    + (a \div 100000000) * Limb1074(j - 2)

\* the carry out of limb hi - 1 of a * 2^1074 when c is carried into limb lo:
\* through the lower half of the limbs, then with that carry through the upper
RECURSIVE CarryThrough(_, _, _, _)
CarryThrough(a, lo, hi, c) ==
    IF hi <= lo THEN c
    ELSE IF hi = lo + 1 THEN (Column(a, lo) + c) \div 10000
    ELSE CHOOSE out \in {CarryThrough(a, (lo + hi) \div 2, hi, half) :
                            half \in {CarryThrough(a, lo, (lo + hi) \div 2, c)}} : TRUE

\* the carry into limb j of a * 2^1074
Carry(a, j) == CarryThrough(a, 0, j, 0)

\* a * 2^1074 / 10^(4 * q + r) rounded to the nearest integer, for a result
\* below 2^31 and the carry c into limb q - 1: the limbs above limb q, the
\* digits of limb q above digit r, and one more when the first digit dropped
\* is 5 or more (a * 2^1074 is never half-way: 5^n does not divide a)
Rounded(a, q, r, c) ==
    LET s0 == Column(a, q - 1) + c
        s1 == Column(a, q) + s0 \div 10000
        s2 == Column(a, q + 1) + s1 \div 10000
        s3 == Column(a, q + 2) + s2 \div 10000
        s4 == Column(a, q + 3) + s3 \div 10000
    IN  ((s4 % 10000) * 100000000 + (s3 % 10000) * 10000 + (s2 % 10000))
            * Pow10(4 - r)
        + (s1 % 10000) \div Pow10(r)
        + (IF r = 0
           THEN (IF s0 % 10000 >= 5000 THEN 1 ELSE 0)
           ELSE (IF ((s1 % 10000) \div Pow10(r - 1)) % 10 >= 5 THEN 1 ELSE 0))

\* a * 2^1074 / 10^n rounded to the nearest integer, n >= 4
Multiple(a, n) ==
    CHOOSE k \in {Rounded(a, n \div 4, n % 4, c) : c \in {Carry(a, n \div 4 - 1)}} : TRUE

\* the double k * 2^-1074 with the sign of m
Subnormal(m, k) ==
    IF k = 0 THEN [m |-> 0, e |-> 0]
    ELSE [sub |-> IF m < 0 THEN 0 - k ELSE k]

\* the first nine digits of a > 0, with zeros after them when a has fewer
Top9(a) ==
    IF Digits(a) <= 9 THEN a * Pow10(9 - Digits(a))
    ELSE a \div Pow10(Digits(a) - 9)

\* the tenth digit of a > 0, 0 when a has fewer
Tenth(a) == IF Digits(a) <= 9 THEN 0 ELSE (a \div Pow10(Digits(a) - 10)) % 10

\* the IEEE double nearest to the decimal m * 10^e, m without trailing
\* zeros and of at most ten digits (the integers here end at 2^31 - 1, a
\* literal of more digits is none of the inputs): infinite from 1.7976931348623158e308 on, a multiple [sub |-> k] of
\* 2^-1074 below 1.05e-314 and zero when k is 0 (also for -0.0, which is
\* equal to 0.0), else the decimal itself, since two decimals of at most ten
\* digits that are 1.05e-314 or more are different doubles
Double(m, e) ==
    LET a == Abs(m)
        x == e + Digits(a) - 1
    IN  IF m = 0 \/ x < -324 THEN [m |-> 0, e |-> 0]
        ELSE IF \/ x > 308
                \/ x = 308 /\ Top9(a) > 179769313
                \/ x = 308 /\ Top9(a) = 179769313 /\ Tenth(a) >= 5
        THEN [nonfinite |-> IF m < 0 THEN "-Infinity" ELSE "Infinity"]
        ELSE IF x < -314 \/ (x = -314 /\ Top9(a) < 105000000)
        THEN CHOOSE f \in {Subnormal(m, k) : k \in {Multiple(a, 0 - e)}} : TRUE
        ELSE [m |-> m, e |-> e]

\* float(text) for the decimal m * 10^e
PyFloat(m, e) == [float |-> Double(Normal(m, e).m, Normal(m, e).e)]

PyStr(frags) == [str |-> frags]
PyList(s) == [list |-> s]
PyDict(items) == [dict |-> items]

Range(s) == {s[i] : i \in 1..Len(s)}

EmptyDict == [k \in {} |-> None]

\* type(v).__name__
TypeName(v) ==
    CASE "none" \in DOMAIN v -> "NoneType"
      [] "bool" \in DOMAIN v -> "bool"
      [] "int" \in DOMAIN v -> "int"
      [] "float" \in DOMAIN v -> "float"
      [] "str" \in DOMAIN v -> "str"
      [] "text" \in DOMAIN v -> "str"
      [] "list" \in DOMAIN v -> "list"
      [] "dict" \in DOMAIN v -> "dict"

\* bool(v): None, False, 0, 0.0, "", [] and {} are falsy
Truthy(v) ==
    CASE "none" \in DOMAIN v -> FALSE
      [] "bool" \in DOMAIN v -> v.bool
      [] "int" \in DOMAIN v -> v.int # 0
      [] "float" \in DOMAIN v -> "m" \notin DOMAIN v.float \/ v.float.m # 0
      [] "str" \in DOMAIN v -> \E i \in 1..Len(v.str) : v.str[i] # ""
      [] "list" \in DOMAIN v -> v.list # <<>>
      [] "dict" \in DOMAIN v -> v.dict # <<>>
      [] "text" \in DOMAIN v -> v.text # <<>>

\* d[k] = v on a dict's items: a new key goes last, a known key keeps its place
DictSet(items, k, v) ==
    IF \E j \in 1..Len(items) : items[j][1] = k
    THEN [j \in 1..Len(items) |-> IF items[j][1] = k THEN <<k, v>> ELSE items[j]]
    ELSE Append(items, <<k, v>>)

DictKeys(items) == [j \in 1..Len(items) |-> items[j][1]]

DictGet(items, k) == items[CHOOSE j \in 1..Len(items) : items[j][1] = k][2]

----------------------------------------------------------------------------
(* json.loads on a token sequence *)

Punct(c) == [p |-> c]     \* one of { } [ ] : ,
StrTok(s) == [s |-> s]    \* a double-quoted string without escapes
NumTok(n) == [n |-> n]    \* an integer literal
\* a number literal with a fraction or an exponent and at most ten
\* significant digits: its text, and its value as the decimal m * 10^e
FloatTok(lit, m, e) == [lit |-> lit, m |-> m, e |-> e]
\* a bare word: true, false, null, NaN, Infinity, -Infinity, or a run of
\* characters that starts no JSON value
Word(w) == [w |-> w]
Space(n) == [ws |-> n]    \* n blanks, n > 0

JsonText(toks) == [text |-> toks]

\* the number of characters of a token
TokLen(t) ==
    CASE "p" \in DOMAIN t -> 1
      [] "s" \in DOMAIN t -> Len(t.s) + 2
      [] "n" \in DOMAIN t -> Len(ToString(t.n))
      [] "lit" \in DOMAIN t -> Len(t.lit)
      [] "w" \in DOMAIN t -> Len(t.w)
      [] "ws" \in DOMAIN t -> t.ws

\* the index in the text of the first character of token i; past the last
\* token, the length of the text
RECURSIVE Offset(_, _)
Offset(toks, i) == IF i = 1 THEN 0 ELSE Offset(toks, i - 1) + TokLen(toks[i - 1])

\* the decoder skipping whitespace from token i on
RECURSIVE Skip(_, _)
Skip(toks, i) ==
    IF i <= Len(toks) /\ "ws" \in DOMAIN toks[i] THEN Skip(toks, i + 1) ELSE i

\* JSONDecodeError(reason, s, pos) at token i: str(e) is
\* "<reason>: line 1 column <pos + 1> (char <pos>)"
ErrMsg(reason, pos) ==
    <<reason, ": line 1 column ", ToString(pos + 1), " (char ", ToString(pos), ")">>

Fail(reason, toks, i) == [ok |-> FALSE, msg |-> ErrMsg(reason, Offset(toks, i))]
Ok(v, i) == [ok |-> TRUE, val |-> v, next |-> i]

IsTok(toks, i, t) == i <= Len(toks) /\ toks[i] = t

RECURSIVE ParseValue(_, _), ParseMembers(_, _, _), ParseElements(_, _, _)

\* one JSON value starting at token i, which is no whitespace
ParseValue(toks, i) ==
    IF i > Len(toks) THEN Fail("Expecting value", toks, i)
    ELSE LET t == toks[i] IN
         CASE "s" \in DOMAIN t -> Ok(PyStr(<<t.s>>), i + 1)
           [] "n" \in DOMAIN t -> Ok(PyInt(t.n), i + 1)
           [] "lit" \in DOMAIN t -> Ok(PyFloat(t.m, t.e), i + 1)
           [] "w" \in DOMAIN t ->
                CASE t.w = "null" -> Ok(None, i + 1)
                  [] t.w = "true" -> Ok(PyBool(TRUE), i + 1)
                  [] t.w = "false" -> Ok(PyBool(FALSE), i + 1)
                  [] t.w \in {"NaN", "Infinity", "-Infinity"} -> Ok(NonFinite(t.w), i + 1)
                  [] OTHER -> Fail("Expecting value", toks, i)
           [] "p" \in DOMAIN t ->
                CASE t.p = "{" ->
                       LET j == Skip(toks, i + 1) IN
                       IF IsTok(toks, j, Punct("}"))
                       THEN Ok(PyDict(<<>>), j + 1)
                       ELSE ParseMembers(toks, j, <<>>)
                  [] t.p = "[" ->
                       LET j == Skip(toks, i + 1) IN
                       IF IsTok(toks, j, Punct("]"))
                       THEN Ok(PyList(<<>>), j + 1)
                       ELSE ParseElements(toks, j, <<>>)
                  [] OTHER -> Fail("Expecting value", toks, i)
           [] OTHER -> Fail("Expecting value", toks, i)

\* "key" : value, then "," and another member, or "}"
ParseMembers(toks, i, acc) ==
    IF ~(i <= Len(toks) /\ "s" \in DOMAIN toks[i])
    THEN Fail("Expecting property name enclosed in double quotes", toks, i)
    ELSE LET j == Skip(toks, i + 1) IN
         IF ~IsTok(toks, j, Punct(":"))
         THEN Fail("Expecting ':' delimiter", toks, j)
         ELSE LET r == ParseValue(toks, Skip(toks, j + 1)) IN
              IF ~r.ok THEN r
              ELSE LET acc2 == DictSet(acc, toks[i].s, r.val)
                       n == Skip(toks, r.next)
                   IN  IF IsTok(toks, n, Punct("}"))
                       THEN Ok(PyDict(acc2), n + 1)
                       ELSE IF IsTok(toks, n, Punct(","))
                            THEN ParseMembers(toks, Skip(toks, n + 1), acc2)
                            ELSE Fail("Expecting ',' delimiter", toks, n)

\* value, then "," and another element, or "]"
ParseElements(toks, i, acc) ==
    LET r == ParseValue(toks, i) IN
    IF ~r.ok THEN r
    ELSE LET acc2 == Append(acc, r.val)
             n == Skip(toks, r.next)
         IN  IF IsTok(toks, n, Punct("]"))
             THEN Ok(PyList(acc2), n + 1)
             ELSE IF IsTok(toks, n, Punct(","))
                  THEN ParseElements(toks, Skip(toks, n + 1), acc2)
                  ELSE Fail("Expecting ',' delimiter", toks, n)

\* JSONDecoder.decode after the value r is parsed: only whitespace may follow
DecodeEnd(toks, r) ==
    IF ~r.ok THEN [raise |-> [exc |-> "JSONDecodeError", msg |-> r.msg]]
    ELSE IF Skip(toks, r.next) = Len(toks) + 1 THEN [ret |-> r.val]
    ELSE [raise |-> [exc |-> "JSONDecodeError",
                     msg |-> Fail("Extra data", toks, Skip(toks, r.next)).msg]]

\* json.loads(s): [ret |-> value], or [raise |-> e] for None (TypeError) and
\* for a text that is not one JSON value (JSONDecodeError)
json_loads(s) ==
    IF "text" \notin DOMAIN s
    THEN [raise |-> [exc |-> "TypeError",
                     msg |-> <<"the JSON object must be str, bytes or bytearray, not ",
                               TypeName(s)>>]]
    ELSE DecodeEnd(s.text, ParseValue(s.text, Skip(s.text, 1)))

----------------------------------------------------------------------------
(* agentgoogle/tools.py: the map tools, each the instruction it returns *)

add_basemap(name) == [action |-> "add_basemap", payload |-> [name |-> name]]

add_vector(data, name) ==
    [action |-> "add_vector", payload |-> [data |-> data, name |-> name]]

\* fly_to with the two coordinates exchanged in the payload
fly_to_swapped(longitude, latitude, zoom) ==
    [action |-> "fly_to",
     payload |-> [longitude |-> latitude, latitude |-> longitude, zoom |-> zoom]]

fly_to(longitude, latitude, zoom) ==
    [action |-> "fly_to",
     payload |-> [longitude |-> longitude, latitude |-> latitude, zoom |-> zoom]]

add_cog_layer(url, name, opacity, bands) ==
    [action |-> "add_cog_layer",
     payload |-> [url |-> url, name |-> name, opacity |-> opacity, bands |-> bands]]

remove_layer(name) == [action |-> "remove_layer", payload |-> [name |-> name]]

set_pitch(pitch) == [action |-> "set_pitch", payload |-> [pitch |-> pitch]]

set_opacity(name, opacity) ==
    [action |-> "set_opacity", payload |-> [name |-> name, opacity |-> opacity]]

zoom_to(zoom) == [action |-> "zoom_to", payload |-> [zoom |-> zoom]]

get_layer_names == [action |-> "get_layer_names", payload |-> EmptyDict]

set_terrain(exaggeration) ==
    [action |-> "set_terrain", payload |-> [exaggeration |-> exaggeration]]

remove_terrain == [action |-> "remove_terrain", payload |-> EmptyDict]

\* helloworld tools.greet(name): the greeting text for name
greet(name) ==
    PyStr(<<"Hello, ">> \o (IF "str" \in DOMAIN name THEN name.str
                             ELSE <<ToString(name)>>) \o <<"!">>)

\* a parameter without a default, and one with
Req(n) == [name |-> n, has_default |-> FALSE, default |-> None]
Opt(n, d) == [name |-> n, has_default |-> TRUE, default |-> d]

\* the def line of each implementation (self left out): its parameters in order
Signature ==
    [add_basemap     |-> <<Req("name")>>,
     add_vector      |-> <<Req("data"), Opt("name", None)>>,
     fly_to          |-> <<Req("longitude"), Req("latitude"), Opt("zoom", PyInt(12))>>,
     add_cog_layer   |-> <<Req("url"), Opt("name", None), Opt("opacity", PyFloat(1, 0)),
                           Opt("bands", None)>>,
     remove_layer    |-> <<Req("name")>>,
     set_pitch       |-> <<Req("pitch")>>,
     set_opacity     |-> <<Req("name"), Req("opacity")>>,
     zoom_to         |-> <<Req("zoom")>>,
     get_layer_names |-> <<>>,
     set_terrain     |-> <<Opt("exaggeration", PyFloat(1, 0))>>,
     remove_terrain  |-> <<>>,
     greet           |-> <<Req("name")>>]

\* __qualname__ of each implementation, as Python's TypeError texts print it
QualName(f) == IF f = "greet" THEN "greet" ELSE "MapTools." \o f

\* the implementation is a method the agent holds bound to its MapTools
\* object: the call passes that object as self
IsBoundMethod(f) == f # "greet"

ParamNames(f) == {Signature[f][i].name : i \in 1..Len(Signature[f])}

RequiredParams(f) ==
    {Signature[f][i].name : i \in {j \in 1..Len(Signature[f]) : ~Signature[f][j].has_default}}

\* the body of implementation f run on its bound parameters a
Body(f, a) ==
    CASE f = "add_basemap" -> add_basemap(a["name"])
      [] f = "add_vector" -> add_vector(a["data"], a["name"])
      [] f = "fly_to" -> fly_to(a["longitude"], a["latitude"], a["zoom"])
      [] f = "add_cog_layer" ->
            add_cog_layer(a["url"], a["name"], a["opacity"], a["bands"])
      [] f = "remove_layer" -> remove_layer(a["name"])
      [] f = "set_pitch" -> set_pitch(a["pitch"])
      [] f = "set_opacity" -> set_opacity(a["name"], a["opacity"])
      [] f = "zoom_to" -> zoom_to(a["zoom"])
      [] f = "get_layer_names" -> get_layer_names
      [] f = "set_terrain" -> set_terrain(a["exaggeration"])
      [] f = "remove_terrain" -> remove_terrain
      [] f = "greet" -> greet(a["name"])

TypeError(frags) == [exc |-> "TypeError", msg |-> frags]

\* 'a' / 'a' and 'b' / 'a', 'b', and 'c': how Python lists missing parameters
RECURSIVE QuoteList(_)
QuoteList(names) ==
    IF Len(names) = 1 THEN <<"'", names[1], "'">>
    ELSE IF Len(names) = 2 THEN <<"'", names[1], "' and '", names[2], "'">>
    ELSE <<"'", names[1], "', ">> \o
         (IF Len(names) = 3
          THEN <<"'", names[2], "', and '", names[3], "'">>
          ELSE QuoteList(Tail(names)))

\* tool_function(**tool_args): Python binds the keywords to f's parameters and
\* runs the body, or raises TypeError: for arguments that are no mapping, for
\* the first keyword, in the dict's order, that f does not declare or that
\* names the self a bound method already has, for required parameters left
\* unbound
CallWithKwargs(f, tool_args) ==
    IF "dict" \notin DOMAIN tool_args
    THEN [raise |-> TypeError(<<"tools.", QualName(f),
                                "() argument after ** must be a mapping, not ",
                                TypeName(tool_args)>>)]
    ELSE LET keys == DictKeys(tool_args.dict)
             unexpected == SelectSeq(keys, LAMBDA k : k \notin ParamNames(f))
             sig == Signature[f]
             unbound == SelectSeq(sig, LAMBDA p : ~p.has_default /\ p.name \notin Range(keys))
             missing == [i \in 1..Len(unbound) |-> unbound[i].name]
             bound == [n \in ParamNames(f) |->
                          IF n \in Range(keys) THEN DictGet(tool_args.dict, n)
                          ELSE (CHOOSE p \in Range(sig) : p.name = n).default]
         IN  IF unexpected # <<>>
             THEN IF unexpected[1] = "self" /\ IsBoundMethod(f)
                  THEN [raise |-> TypeError(<<QualName(f),
                                              "() got multiple values for argument '",
                                              "self", "'">>)]
                  ELSE [raise |-> TypeError(<<QualName(f),
                                              "() got an unexpected keyword argument '",
                                              unexpected[1], "'">>)]
             ELSE IF missing # <<>>
                  THEN [raise |-> TypeError(
                            <<QualName(f), "() missing ", ToString(Len(missing)),
                              IF Len(missing) = 1 THEN " required positional argument: "
                              ELSE " required positional arguments: ">>
                            \o QuoteList(missing))]
                  ELSE [ret |-> Body(f, bound)]

----------------------------------------------------------------------------
(* The agents as constructed *)

\* one entry of tool_specs; required = <<>> stands for a spec without the key
ToolSpec(name, description, properties, required) ==
    [type |-> "function",
     function |->
        [name |-> name,
         description |-> description,
         parameters |->
            IF required = <<>>
            THEN [type |-> "object", properties |-> properties]
            ELSE [type |-> "object", properties |-> properties,
                  required |-> required]]]

Number == [type |-> "number"]
String == [type |-> "string"]

\* GeoAgent.__init__: self.tools
GeoTools ==
    [fly_to          |-> "fly_to",
     zoom_to         |-> "zoom_to",
     add_basemap     |-> "add_basemap",
     add_cog_layer   |-> "add_cog_layer",
     add_vector      |-> "add_vector",
     remove_layer    |-> "remove_layer",
     get_layer_names |-> "get_layer_names",
     set_terrain     |-> "set_terrain",
     remove_terrain  |-> "remove_terrain",
     set_pitch       |-> "set_pitch",
     set_opacity     |-> "set_opacity"]

\* tool_specs in which add_vector requires name as well
GeoToolSpecsDrift ==
    << ToolSpec("zoom_to", "Zoom the map to a specific level.",
                [zoom |-> Number], <<"zoom">>),
       ToolSpec("add_cog_layer", "Add a COG layer by URL.",
                [url |-> String], <<"url">>),
       ToolSpec("fly_to", "Fly to longitude, latitude.",
                [longitude |-> Number, latitude |-> Number],
                <<"longitude", "latitude">>),
       ToolSpec("add_basemap", "Add a basemap by name.",
                [name |-> String], <<"name">>),
       ToolSpec("remove_layer", "Remove a layer by name.",
                [name |-> String], <<"name">>),
       ToolSpec("get_layer_names", "Get the names of all layers.",
                EmptyDict, <<>>),
       ToolSpec("set_terrain", "Set terrain exaggeration.",
                [exaggeration |-> Number], <<>>),
       ToolSpec("remove_terrain", "Remove terrain.", EmptyDict, <<>>),
       ToolSpec("set_pitch", "Set the map pitch.",
                [pitch |-> Number], <<"pitch">>),
       ToolSpec("set_opacity", "Set layer opacity.",
                [name |-> String, opacity |-> Number], <<"name", "opacity">>),
       ToolSpec("add_vector", "Add a vector dataset.",
                [data |-> String, name |-> String], <<"data", "name">>) >>

\* GeoAgent.__init__: self.tool_specs
GeoToolSpecs ==
    << ToolSpec("zoom_to", "Zoom the map to a specific level.",
                [zoom |-> Number], <<"zoom">>),
       ToolSpec("add_cog_layer", "Add a COG layer by URL.",
                [url |-> String], <<"url">>),
       ToolSpec("fly_to", "Fly to longitude, latitude.",
                [longitude |-> Number, latitude |-> Number],
                <<"longitude", "latitude">>),
       ToolSpec("add_basemap", "Add a basemap by name.",
                [name |-> String], <<"name">>),
       ToolSpec("remove_layer", "Remove a layer by name.",
                [name |-> String], <<"name">>),
       ToolSpec("get_layer_names", "Get the names of all layers.",
                EmptyDict, <<>>),
       ToolSpec("set_terrain", "Set terrain exaggeration.",
                [exaggeration |-> Number], <<>>),
       ToolSpec("remove_terrain", "Remove terrain.", EmptyDict, <<>>),
       ToolSpec("set_pitch", "Set the map pitch.",
                [pitch |-> Number], <<"pitch">>),
       ToolSpec("set_opacity", "Set layer opacity.",
                [name |-> String, opacity |-> Number], <<"name", "opacity">>),
       ToolSpec("add_vector", "Add a vector dataset.",
                [data |-> String, name |-> String], <<"data">>) >>

GeoAgent == [tools |-> GeoTools, tool_specs |-> GeoToolSpecs]

\* HelloWorldAgent.__init__
HelloWorldAgent ==
    [tool_functions |-> [greet |-> "greet"],
     tool_specs |->
        << ToolSpec("greet", "Generates a greeting for the given name.",
                    [name |-> [type |-> "string",
                               description |-> "The name of the person to greet."]],
                    <<"name">>) >>]

----------------------------------------------------------------------------
(* ask *)

GeoSystemPrompt ==
    "You are a map control agent. Translate the user's request into a single tool call. Call ONE tool with MINIMAL parameters only."

HelloSystemPrompt ==
    "You are a friendly assistant. Use tools when appropriate; otherwise respond naturally."

Message(role, content) == [role |-> role, content |-> content]

\* the messages with the query ahead of the history
BuildMessagesQueryFirst(query, history) ==
    [messages |-> <<Message("system", GeoSystemPrompt), Message("user", query)>>
                  \o history,
     history |-> history]

\* the messages built in the history list itself (messages = history)
BuildMessagesInPlace(query, history) ==
    [messages |-> <<Message("system", GeoSystemPrompt)>> \o history
                  \o <<Message("user", query)>>,
     history |-> <<Message("system", GeoSystemPrompt)>> \o history
                 \o <<Message("user", query)>>]

\* GeoAgent.ask up to the try: the messages list, and the history list as the
\* loop leaves it (the loop reads it and appends to messages only)
BuildMessages(query, history) ==
    [messages |-> <<Message("system", GeoSystemPrompt)>> \o history
                  \o <<Message("user", query)>>,
     history |-> history]

\* for message in history, on a history that cannot be iterated
IterError(history) ==
    [exc |-> "TypeError", msg |-> <<"'", TypeName(history), "' object is not iterable">>]

\* HelloWorldAgent.ask up to the try
HelloMessages(query) ==
    <<Message("system", HelloSystemPrompt), Message("user", query)>>

\* getattr(response_message, "tool_calls", None)
GetToolCalls(response_message) ==
    IF "tool_calls" \in DOMAIN response_message THEN response_message.tool_calls
    ELSE None

\* if tool_calls is None
NoToolCallsNoneOnly(tool_calls) == tool_calls = None

\* if not tool_calls
NoToolCalls(tool_calls) == ~Truthy(tool_calls)

\* the exception classes and their direct base classes: Python's built-in
\* ones, json.JSONDecodeError, asyncio.CancelledError (under its class name
\* and under its qualified name) and the completion library's, which derive
\* from Exception (the classes between them and Exception are left out)
Bases ==
    [ArithmeticError |-> {"Exception"}, AssertionError |-> {"Exception"},
     AttributeError |-> {"Exception"}, BaseException |-> {},
     BaseExceptionGroup |-> {"BaseException"},
     BlockingIOError |-> {"OSError"},
     BrokenPipeError |-> {"ConnectionError"}, BufferError |-> {"Exception"},
     BytesWarning |-> {"Warning"}, ChildProcessError |-> {"OSError"},
     ConnectionAbortedError |-> {"ConnectionError"},
     ConnectionError |-> {"OSError"},
     ConnectionRefusedError |-> {"ConnectionError"},
     ConnectionResetError |-> {"ConnectionError"},
     DeprecationWarning |-> {"Warning"}, EOFError |-> {"Exception"},
     EncodingWarning |-> {"Warning"}, Exception |-> {"BaseException"},
     ExceptionGroup |-> {"BaseExceptionGroup", "Exception"},
     FileExistsError |-> {"OSError"}, FileNotFoundError |-> {"OSError"},
     FloatingPointError |-> {"ArithmeticError"},
     FutureWarning |-> {"Warning"}, GeneratorExit |-> {"BaseException"},
     ImportError |-> {"Exception"}, ImportWarning |-> {"Warning"},
     IndentationError |-> {"SyntaxError"}, IndexError |-> {"LookupError"},
     InterruptedError |-> {"OSError"}, IsADirectoryError |-> {"OSError"},
     KeyError |-> {"LookupError"}, KeyboardInterrupt |-> {"BaseException"},
     LookupError |-> {"Exception"}, MemoryError |-> {"Exception"},
     ModuleNotFoundError |-> {"ImportError"}, NameError |-> {"Exception"},
     NotADirectoryError |-> {"OSError"},
     NotImplementedError |-> {"RuntimeError"}, OSError |-> {"Exception"},
     OverflowError |-> {"ArithmeticError"},
     PendingDeprecationWarning |-> {"Warning"},
     PermissionError |-> {"OSError"}, ProcessLookupError |-> {"OSError"},
     RecursionError |-> {"RuntimeError"}, ReferenceError |-> {"Exception"},
     ResourceWarning |-> {"Warning"}, RuntimeError |-> {"Exception"},
     RuntimeWarning |-> {"Warning"}, StopAsyncIteration |-> {"Exception"},
     StopIteration |-> {"Exception"}, SyntaxError |-> {"Exception"},
     SyntaxWarning |-> {"Warning"}, SystemError |-> {"Exception"},
     SystemExit |-> {"BaseException"}, TabError |-> {"IndentationError"},
     TimeoutError |-> {"OSError"}, TypeError |-> {"Exception"},
     UnboundLocalError |-> {"NameError"},
     UnicodeDecodeError |-> {"UnicodeError"},
     UnicodeEncodeError |-> {"UnicodeError"},
     UnicodeError |-> {"ValueError"},
     UnicodeTranslateError |-> {"UnicodeError"},
     UnicodeWarning |-> {"Warning"}, UserWarning |-> {"Warning"},
     ValueError |-> {"Exception"}, Warning |-> {"Exception"},
     ZeroDivisionError |-> {"ArithmeticError"}]
    @@ [JSONDecodeError |-> {"ValueError"}, CancelledError |-> {"BaseException"},
        APIConnectionError |-> {"Exception"}, Timeout |-> {"Exception"},
        APIError |-> {"Exception"}, AuthenticationError |-> {"Exception"},
        RateLimitError |-> {"Exception"}, BadRequestError |-> {"Exception"},
        ServiceUnavailableError |-> {"Exception"}]
    @@ ("asyncio.CancelledError" :> {"BaseException"})

\* issubclass(cls, base)
RECURSIVE IsSubclass(_, _)
IsSubclass(cls, base) == cls = base \/ \E b \in Bases[cls] : IsSubclass(b, base)

\* isinstance(e, Exception)
IsException(e) == IsSubclass(e.exc, "Exception")

IndexError == [exc |-> "IndexError", msg |-> <<"list index out of range">>]

\* tool_calls[-1]
LastCall(tool_calls) ==
    IF tool_calls.list = <<>> THEN [raise |-> IndexError]
    ELSE [ret |-> tool_calls.list[Len(tool_calls.list)]]

\* tool_calls[0]
SelectedCall(tool_calls) ==
    IF tool_calls.list = <<>> THEN [raise |-> IndexError]
    ELSE [ret |-> tool_calls.list[1]]

\* tool_call.function.arguments or "{}"
RawArgs(tool_call) ==
    IF Truthy(tool_call.function.arguments) THEN tool_call.function.arguments
    ELSE JsonText(<<Punct("{"), Punct("}")>>)

\* json.loads without its own try/except
ToolArgsNoRecover(tool_call) == json_loads(RawArgs(tool_call))

\* except Exception: tool_args = {}
OrEmptyDict(parsed) ==
    IF "raise" \in DOMAIN parsed /\ IsException(parsed.raise)
    THEN [ret |-> PyDict(<<>>)]
    ELSE parsed

\* except Exception: tool_args = raw_args
OrRawArgs(parsed, raw_args) ==
    IF "raise" \in DOMAIN parsed THEN [ret |-> raw_args] ELSE parsed

\* the except clause keeping the raw text
ToolArgsKeepRaw(tool_call) ==
    OrRawArgs(json_loads(RawArgs(tool_call)), RawArgs(tool_call))

\* tool_call.function.arguments or "{}", then json.loads under its own
\* try/except Exception: what it raises (TypeError, JSONDecodeError) leaves
\* tool_args = {}
ToolArgs(tool_call) == OrEmptyDict(json_loads(RawArgs(tool_call)))

\* {"action": "error", "payload": {"message": ...}}
ErrorAction(frags) == [action |-> "error", payload |-> [message |-> PyStr(frags)]]

\* response.choices[0].message
ResponseMessage(completed) ==
    IF "raise" \in DOMAIN completed THEN completed
    ELSE IF completed.ret.choices = <<>> THEN [raise |-> IndexError]
    ELSE [ret |-> completed.ret.choices[1].message]

\* a statement of the try body raised: the rest is not run, nothing was called
Raised(x) == [raise |-> x.raise, invoked |-> <<>>]

\* tool_function(**tool_args) inside the try: tool_args is unpacked first,
\* and the implementation is called when it is a mapping
Invoke(tool_function, tool_args) ==
    CallWithKwargs(tool_function, tool_args)
    @@ [invoked |-> IF "dict" \in DOMAIN tool_args THEN <<tool_function>> ELSE <<>>]

\* GeoAgent.ask: the lookup of tool_name and the call, or the not-found result
GeoDispatch(self, tool_name, parsed) ==
    IF "raise" \in DOMAIN parsed THEN Raised(parsed)
    ELSE IF tool_name \in DOMAIN self.tools
    THEN Invoke(self.tools[tool_name], parsed.ret)
    ELSE [ret |-> ErrorAction(<<"Tool '", tool_name, "' not found.">>),
          invoked |-> <<>>]

\* GeoAgent.ask: tool_name and tool_args of the selected call, then the lookup
GeoSelect(self, selected) ==
    IF "raise" \in DOMAIN selected THEN Raised(selected)
    ELSE GeoDispatch(self, selected.ret.function.name, ToolArgs(selected.ret))

\* GeoAgent.ask: the reply's message m, a chat response or a tool selection
GeoReply(self, m) ==
    IF "raise" \in DOMAIN m THEN Raised(m)
    ELSE IF NoToolCalls(GetToolCalls(m.ret))
    THEN [ret |-> [action |-> "chat_response",
                   payload |-> [message |-> m.ret.content]],
          invoked |-> <<>>]
    ELSE GeoSelect(self, SelectedCall(GetToolCalls(m.ret)))

\* the body of GeoAgent.ask's try, from the return of completion(...) on:
\* [ret |-> result] or [raise |-> e], with the implementations it called
GeoTry(self, completed) == GeoReply(self, ResponseMessage(completed))

\* no except clause: the exception leaves ask
GeoExceptNone(t) == t

\* GeoAgent.ask's except Exception clause: an exception of another class
\* passes it and leaves ask
GeoExcept(t) ==
    IF "raise" \in DOMAIN t /\ IsException(t.raise)
    THEN [ret |-> ErrorAction(t.raise.msg), invoked |-> t.invoked]
    ELSE t

GeoAsk(self, completed) == GeoExcept(GeoTry(self, completed))

\* return {"response": tool_result}
HelloResult(r) ==
    IF "raise" \in DOMAIN r THEN r
    ELSE [ret |-> [response |-> r.ret], invoked |-> r.invoked]

\* HelloWorldAgent.ask: the lookup of tool_name and the call, or the
\* not-found result
HelloDispatch(self, tool_name, parsed) ==
    IF "raise" \in DOMAIN parsed THEN Raised(parsed)
    ELSE IF tool_name \in DOMAIN self.tool_functions
    THEN HelloResult(Invoke(self.tool_functions[tool_name], parsed.ret))
    ELSE [ret |-> [response |-> PyStr(<<"Error: ", "Tool '", tool_name,
                                        "' not found.">>)],
          invoked |-> <<>>]

\* HelloWorldAgent.ask: tool_name and tool_args of the selected call
HelloSelect(self, selected) ==
    IF "raise" \in DOMAIN selected THEN Raised(selected)
    ELSE HelloDispatch(self, selected.ret.function.name, ToolArgs(selected.ret))

\* HelloWorldAgent.ask: the reply's message m, a response or a tool selection
HelloReply(self, m) ==
    IF "raise" \in DOMAIN m THEN Raised(m)
    ELSE IF NoToolCalls(GetToolCalls(m.ret))
    THEN [ret |-> [response |-> m.ret.content], invoked |-> <<>>]
    ELSE HelloSelect(self, SelectedCall(GetToolCalls(m.ret)))

\* the body of HelloWorldAgent.ask's try, from the return of completion(...) on
HelloTry(self, completed) == HelloReply(self, ResponseMessage(completed))

\* HelloWorldAgent.ask's except Exception clause
HelloExcept(t) ==
    IF "raise" \in DOMAIN t /\ IsException(t.raise)
    THEN [ret |-> [response |-> PyStr(<<"Error: ">> \o t.raise.msg)],
          invoked |-> t.invoked]
    ELSE t

HelloAsk(self, completed) == HelloExcept(HelloTry(self, completed))

\* what ask hands its caller: the returned result or the exception
Ended(r) == IF "raise" \in DOMAIN r THEN [raise |-> r.raise] ELSE [ret |-> r.ret]

----------------------------------------------------------------------------
(* Inputs: what clients pass and what the completion service may produce *)

Queries == {"zoom in", "hi"}

\* an earlier conversation
Conversation ==
    <<Message("user", "hi"), Message("assistant", "hello"),
      Message("user", "show me Paris"), Message("assistant", "Flying to Paris.")>>

\* the histories passed: the conversation's first turns, and one that starts
\* with the assistant
Histories ==
    {SubSeq(Conversation, 1, n) : n \in 0..MaxHistoryLen}
    \cup {<<Message("assistant", "hello"), Message("user", "hi")>>}

\* the JSON text of a sample value for each argument name
SampleValue ==
    [longitude    |-> <<NumTok(-122)>>,
     latitude     |-> <<NumTok(37)>>,
     zoom         |-> <<NumTok(5)>>,
     url          |-> <<StrTok("https://example.com/a.tif")>>,
     data         |-> <<StrTok("roads.geojson")>>,
     name         |-> <<StrTok("roads")>>,
     opacity      |-> <<FloatTok("0.5", 5, -1)>>,
     bands        |-> <<Punct("["), NumTok(1), Punct(","), Space(1), NumTok(2),
                        Punct(","), Space(1), NumTok(3), Punct("]")>>,
     pitch        |-> <<NumTok(45)>>,
     exaggeration |-> <<FloatTok("1.5", 15, -1)>>,
     bogus        |-> <<Word("true")>>,
     self         |-> <<NumTok(1)>>]

KeyOrder == <<"self", "longitude", "latitude", "zoom", "url", "data", "name",
              "opacity", "bands", "pitch", "exaggeration", "bogus">>

RECURSIVE Members(_)
Members(keys) ==
    IF keys = <<>> THEN <<>>
    ELSE <<StrTok(keys[1]), Punct(":"), Space(1)>> \o SampleValue[keys[1]]
         \o (IF Len(keys) > 1 THEN <<Punct(","), Space(1)>> \o Members(Tail(keys))
             ELSE <<>>)

\* the text {"k1": v1, "k2": v2, ...}
ObjectText(keys) == JsonText(<<Punct("{")>> \o Members(keys) \o <<Punct("}")>>)

ToolNames == DOMAIN GeoTools \cup {"greet", "teleport", "create_map"}

\* for tool name n: an object for every set of its parameters, and for none
\* and all of them with a name it does not declare
ObjectTexts(n) ==
    LET declared == IF n \in DOMAIN Signature THEN ParamNames(n) ELSE {"zoom"}
    IN  {ObjectText(SelectSeq(KeyOrder, LAMBDA k : k \in S)) :
            S \in SUBSET declared \cup {{"bogus"}, declared \cup {"bogus"}}}

\* argument texts that reach no parser or fail in it at once
UnparsedArguments ==
    { None,                                                   \* absent
      JsonText(<<>>),                                         \* ""
      JsonText(<<Word("not"), Space(1), Word("json")>>) }     \* not json

\* argument texts that break off, break the grammar, or are no object
OddArguments ==
    { JsonText(<<Punct("{"), StrTok("zoom"), Punct(":")>>),   \* {"zoom":
      JsonText(<<Punct("{"), Word("zoom"), Punct(":"), Space(1), NumTok(5),
                 Punct("}")>>),                               \* {zoom: 5}
      JsonText(<<Punct("{"), StrTok("zoom"), Punct(":"), Space(1), NumTok(5),
                 Punct(","), Punct("}")>>),                   \* {"zoom": 5,}
      JsonText(<<Punct("{"), StrTok("zoom"), Space(1), NumTok(5),
                 Punct("}")>>),                               \* {"zoom" 5}
      JsonText(<<Punct("{"), Punct("}"), Space(1), Punct("{"), Punct("}")>>),
      JsonText(<<Punct("["), NumTok(1), Punct(","), Space(1), NumTok(2),
                 Punct("]")>>),                               \* [1, 2]
      JsonText(<<FloatTok("1.5", 15, -1)>>),
      JsonText(<<StrTok("abc")>>),
      JsonText(<<Word("null")>>),
      JsonText(<<Punct("{"), StrTok("zoom"), Punct(":"), Space(1), NumTok(5),
                 Punct(","), Space(1), StrTok("zoom"), Punct(":"), Space(1),
                 NumTok(7), Punct("}")>>),
      ObjectText(<<"self", "zoom">>),
      ObjectText(<<"bogus", "latitude", "pitch", "longitude">>) }

\* objects whose number is beyond the range of a float, or below it
RangeArguments ==
    { JsonText(<<Punct("{"), StrTok("zoom"), Punct(":"), Space(1),
                 FloatTok("1e400", 1, 400), Punct("}")>>),    \* {"zoom": 1e400}
      JsonText(<<Punct("{"), StrTok("zoom"), Punct(":"), Space(1),
                 FloatTok("1e-400", 1, -400), Punct("}")>>),  \* {"zoom": 1e-400}
      JsonText(<<Punct("{"), StrTok("zoom"), Punct(":"), Space(1),
                 FloatTok("3e-324", 3, -324), Punct("}")>>) } \* {"zoom": 3e-324}

\* the names the odd argument texts are tried with
ProbedNames == {"zoom_to", "fly_to", "get_layer_names", "set_terrain", "teleport"}

ToolCall(name, arguments) == [function |-> [name |-> name, arguments |-> arguments]]

\* the first calls proposed to the map agent
GeoFirstCalls ==
    UNION {{ToolCall(n, a) : a \in UnparsedArguments \cup ObjectTexts(n)} : n \in ToolNames}
    \cup {ToolCall(n, a) : n \in ProbedNames, a \in OddArguments}
    \cup {ToolCall("zoom_to", a) : a \in RangeArguments}

\* the first calls proposed to the greeting agent
HelloFirstCalls ==
    {ToolCall("greet", a) :
        a \in UnparsedArguments \cup OddArguments \cup ObjectTexts("greet")}
    \cup {ToolCall(n, a) : n \in {"zoom_to", "teleport"},
                           a \in {None, ObjectText(<<"zoom">>),
                                  JsonText(<<Word("not"), Space(1), Word("json")>>)}}

\* the calls a reply with several tool calls is made of
CoreCalls ==
    { ToolCall("zoom_to", ObjectText(<<"zoom">>)),
      ToolCall("greet", ObjectText(<<"name">>)) }

\* a reply whose first call the map agent knows and cannot bind, before a
\* call that it can
FailingFirst ==
    << ToolCall("zoom_to", ObjectText(<<"bogus">>)),
       ToolCall("zoom_to", ObjectText(<<"zoom">>)) >>

ToolCallLists(first) ==
    {<<c>> : c \in first} \cup UNION {[1..n -> CoreCalls] : n \in 2..MaxToolCalls}
    \cup {FailingFirst}

Contents == {PyStr(<<"Hello!">>), PyStr(<<"">>), None}

PlainMessages ==
    {[content |-> t] : t \in Contents}
    \cup {[content |-> t, tool_calls |-> tc] : t \in Contents, tc \in {None, PyList(<<>>)}}

ToolMessages(first) ==
    {[content |-> None, tool_calls |-> PyList(l)] : l \in ToolCallLists(first)}
    \cup {[content |-> PyStr(<<"Zooming.">>), tool_calls |-> PyList(<<c>>)] : c \in CoreCalls}

Completed(m) == [ret |-> [choices |-> <<[message |-> m]>>]]

\* completion(...) raising an exception of the provider library
TransportFailures ==
    { [raise |-> [exc |-> "APIConnectionError", msg |-> <<"Connection refused">>]],
      [raise |-> [exc |-> "Timeout", msg |-> <<"Request timed out">>]] }

\* completion(...) left by an exception that is no Exception: the process is
\* interrupted or told to exit while the call blocks
Interrupts ==
    { [raise |-> [exc |-> "KeyboardInterrupt", msg |-> <<"">>]],
      [raise |-> [exc |-> "SystemExit", msg |-> <<"1">>]],
      [raise |-> [exc |-> "CancelledError", msg |-> <<"">>]],
      [raise |-> [exc |-> "BaseExceptionGroup", msg |-> <<"boom (1 sub-exception)">>]] }

\* what a caller of ask may pass as history that is no list
NotIterable == {None, PyInt(5)}

\* what completion(...) may produce for a request whose first calls are first
Outcomes(first) ==
    {Completed(m) : m \in PlainMessages \cup ToolMessages(first)}
    \cup TransportFailures \cup Interrupts \cup {[ret |-> [choices |-> <<>>]]}

GeoOutcomes == Outcomes(GeoFirstCalls)

HelloOutcomes == Outcomes(HelloFirstCalls)

\* the inputs of the specification with any number of clients
ConcHistories == {<<Message("user", "hi")>>}

ConcOutcomes ==
    { Completed([content |-> PyStr(<<"Hello!">>)]),
      Completed([content |-> None,
                 tool_calls |-> PyList(<<ToolCall("zoom_to", ObjectText(<<"zoom">>))>>)]),
      Completed([content |-> None,
                 tool_calls |-> PyList(<<ToolCall("teleport", None)>>)]),
      Completed([content |-> None,
                 tool_calls |-> PyList(<<ToolCall("greet", ObjectText(<<"name">>)),
                                         ToolCall("fly_to", JsonText(<<Word("not")>>))>>)]),
      [raise |-> [exc |-> "APIConnectionError", msg |-> <<"Connection refused">>]],
      [raise |-> [exc |-> "KeyboardInterrupt", msg |-> <<"">>]] }

----------------------------------------------------------------------------
(* The state machine *)

NoCall == [agent |-> "none"]

\* the servers as started, and the clients before their first request
Start(clients) ==
    /\ geo_agent = GeoAgent
    /\ hello_agent = HelloWorldAgent
    /\ default_history = <<>>
    /\ pc = [c \in clients |-> "idle"]
    /\ call = [c \in clients |-> NoCall]
    /\ request = [c \in clients |-> None]
    /\ response = [c \in clients |-> None]
    /\ outcome = [c \in clients |-> None]
    /\ invoked = [c \in clients |-> <<>>]

Init == Start(Pair)

\* geo_agent.ask(query, history) or geo_agent.ask(query), up to the point
\* where completion(...) blocks
GeoCall(c, Qs, Hs) ==
    /\ pc[c] = "idle"
    /\ \E q \in Qs, default \in BOOLEAN, h \in Hs :
          LET history == IF default THEN default_history ELSE h
              b == BuildMessages(q, history)
          IN  /\ default => h = CHOOSE x \in Hs : TRUE
              /\ request' = [request EXCEPT ![c] =
                                [messages |-> b.messages, tools |-> geo_agent.tool_specs]]
              /\ call' = [call EXCEPT ![c] =
                             [agent |-> "geo", query |-> q, default |-> default,
                              history |-> history, history_after |-> b.history]]
              /\ default_history' = IF default THEN b.history ELSE default_history
    /\ pc' = [pc EXCEPT ![c] = "sent"]
    /\ UNCHANGED <<geo_agent, hello_agent, response, outcome, invoked>>

\* geo_agent.ask(query, history) with a history that cannot be iterated: the
\* loop over it raises before the try, and the exception leaves ask
GeoCallRaises(c, Qs, Bs) ==
    /\ pc[c] = "idle"
    /\ \E q \in Qs, h \in Bs :
          /\ call' = [call EXCEPT ![c] = [agent |-> "geo", history |-> h]]
          /\ outcome' = [outcome EXCEPT ![c] = [raise |-> IterError(h)]]
    /\ pc' = [pc EXCEPT ![c] = "done"]
    /\ UNCHANGED <<geo_agent, hello_agent, default_history, request, response, invoked>>

\* hello_agent.ask(query), up to the point where completion(...) blocks
HelloCall(c, Qs) ==
    /\ pc[c] = "idle"
    /\ \E q \in Qs :
          /\ request' = [request EXCEPT ![c] =
                            [messages |-> HelloMessages(q),
                             tools |-> hello_agent.tool_specs]]
          /\ call' = [call EXCEPT ![c] = [agent |-> "hello", query |-> q]]
    /\ pc' = [pc EXCEPT ![c] = "sent"]
    /\ UNCHANGED <<geo_agent, hello_agent, default_history, response, outcome, invoked>>

\* completion(...) returns or raises, and ask runs to its end: its arguments
\* and its messages list go with its frame, and chat holds how it ended
Receive(c, Outs) ==
    /\ pc[c] = "sent"
    /\ \E o \in Outs :
          \E r \in {IF call[c].agent = "geo" THEN GeoAsk(geo_agent, o)
                    ELSE HelloAsk(hello_agent, o)} :
              /\ response' = [response EXCEPT ![c] = o]
              /\ outcome' = [outcome EXCEPT ![c] = Ended(r)]
              /\ invoked' = [invoked EXCEPT ![c] = r.invoked]
    /\ pc' = [pc EXCEPT ![c] = "done"]
    /\ call' = [call EXCEPT ![c] = [agent |-> call[c].agent]]
    /\ request' = [request EXCEPT ![c] = None]
    /\ UNCHANGED <<geo_agent, hello_agent, default_history>>

\* chat hands on how ask ended; the client is free for its next request
Collect(c) ==
    /\ pc[c] = "done"
    /\ pc' = [pc EXCEPT ![c] = "idle"]
    /\ call' = [call EXCEPT ![c] = NoCall]
    /\ response' = [response EXCEPT ![c] = None]
    /\ outcome' = [outcome EXCEPT ![c] = None]
    /\ invoked' = [invoked EXCEPT ![c] = <<>>]
    /\ UNCHANGED <<geo_agent, hello_agent, default_history, request>>

AskGeo(c) ==
    \/ GeoCall(c, Queries, Histories)
    \/ GeoCallRaises(c, Queries, NotIterable)
AskHello(c) == HelloCall(c, Queries)
CompleteGeo(c) == call[c].agent = "geo" /\ Receive(c, GeoOutcomes)
CompleteHello(c) == call[c].agent = "hello" /\ Receive(c, HelloOutcomes)

\* two clients, their requests interleaved in any order, every input
Next ==
    \/ \E c \in DOMAIN pc : AskGeo(c)
    \/ \E c \in DOMAIN pc : AskHello(c)
    \/ \E c \in DOMAIN pc : CompleteGeo(c)
    \/ \E c \in DOMAIN pc : CompleteHello(c)
    \/ \E c \in DOMAIN pc : Collect(c)

Spec == Init /\ [][Next]_vars

ConcInit == Start(Callers)

ConcGeoCall(c) == GeoCall(c, Queries, ConcHistories)
ConcHelloCall(c) == HelloCall(c, Queries)
ConcReceive(c) == Receive(c, ConcOutcomes)

\* any number of clients, their requests interleaved in any order
ConcNext ==
    \/ \E c \in DOMAIN pc : ConcGeoCall(c)
    \/ \E c \in DOMAIN pc : ConcHelloCall(c)
    \/ \E c \in DOMAIN pc : ConcReceive(c)
    \/ \E c \in DOMAIN pc : Collect(c)

ConcSpec == ConcInit /\ [][ConcNext]_vars

----------------------------------------------------------------------------
(* The properties: vocabulary *)

Done(c) == pc[c] = "done"
IsGeo(c) == call[c].agent = "geo"
IsHello(c) == call[c].agent = "hello"
Returned(c) == "ret" \in DOMAIN outcome[c]
Result(c) == outcome[c].ret

\* the completion service failed, or its reply holds no choice
ProviderFailed(o) ==
    "raise" \in DOMAIN o \/ ("ret" \in DOMAIN o /\ o.ret.choices = <<>>)

\* ask was left before it sent anything: completion(...) was never called
Unsent(c) == Done(c) /\ response[c] = None

\* the tool calls a provider outcome proposes, in order
Proposed(o) ==
    IF "ret" \notin DOMAIN o \/ ProviderFailed(o) THEN <<>>
    ELSE LET m == o.ret.choices[1].message IN
         IF "tool_calls" \in DOMAIN m /\ "list" \in DOMAIN m.tool_calls
         THEN m.tool_calls.list ELSE <<>>

Content(o) == o.ret.choices[1].message.content

PlainReply(o) == "ret" \in DOMAIN o /\ ~ProviderFailed(o) /\ Proposed(o) = <<>>

FirstName(c) == Proposed(response[c])[1].function.name
FirstArguments(c) == Proposed(response[c])[1].function.arguments

Registry(c) == IF IsGeo(c) THEN geo_agent.tools ELSE hello_agent.tool_functions

Selects(c) == Done(c) /\ Proposed(response[c]) # <<>>
UnknownTool(c) == Selects(c) /\ FirstName(c) \notin DOMAIN Registry(c)
KnownTool(c) == Selects(c) /\ FirstName(c) \in DOMAIN Registry(c)

\* the same reply with the first call's argument text replaced by a
WithArguments(o, a) ==
    Completed([content |-> Content(o),
               tool_calls |-> PyList(<<ToolCall(Proposed(o)[1].function.name, a)>>
                                     \o Tail(Proposed(o)))])

\* an argument text that is absent or empty, and one that is not JSON
Absent(a) == a = None \/ a = JsonText(<<>>)
Malformed(a) == ~Absent(a) /\ "raise" \in DOMAIN json_loads(a)

\* the argument text is a JSON object: its items
IsObject(a) ==
    /\ "text" \in DOMAIN a
    /\ "ret" \in DOMAIN json_loads(a)
    /\ "dict" \in DOMAIN json_loads(a).ret
Items(a) == json_loads(a).ret.dict
Keys(a) == Range(DictKeys(Items(a)))

\* the arguments the first proposed call ends up with are ones its
\* implementation can be called with
Accepted(c) ==
    LET a == FirstArguments(c)
        f == Registry(c)[FirstName(c)]
    IN  \/ (Absent(a) \/ Malformed(a)) /\ RequiredParams(f) = {}
        \/ IsObject(a) /\ Keys(a) \subseteq ParamNames(f) /\ RequiredParams(f) \subseteq Keys(a)

\* the request failed: transport, unknown tool, or rejected arguments
Failure(c) ==
    /\ Done(c)
    /\ \/ ProviderFailed(response[c])
       \/ UnknownTool(c)
       \/ KnownTool(c) /\ ~Accepted(c)

\* the text of a [str |-> fragments] value begins with "Error: "
IsErrorText(v) == "str" \in DOMAIN v /\ v.str # <<>> /\ v.str[1] = "Error: "

IsText(v) == "str" \in DOMAIN v

\* the map tool catalog as the interface section lists it: required
\* parameters and the defaults of the optional ones
Listed ==
    [fly_to          |-> [required |-> {"longitude", "latitude"},
                          defaults |-> [zoom |-> PyInt(12)]],
     zoom_to         |-> [required |-> {"zoom"}, defaults |-> EmptyDict],
     add_basemap     |-> [required |-> {"name"}, defaults |-> EmptyDict],
     add_cog_layer   |-> [required |-> {"url"},
                          defaults |-> [name |-> None, opacity |-> PyFloat(1, 0),
                                        bands |-> None]],
     add_vector      |-> [required |-> {"data"}, defaults |-> [name |-> None]],
     remove_layer    |-> [required |-> {"name"}, defaults |-> EmptyDict],
     get_layer_names |-> [required |-> {}, defaults |-> EmptyDict],
     set_terrain     |-> [required |-> {}, defaults |-> [exaggeration |-> PyFloat(1, 0)]],
     remove_terrain  |-> [required |-> {}, defaults |-> EmptyDict],
     set_pitch       |-> [required |-> {"pitch"}, defaults |-> EmptyDict],
     set_opacity     |-> [required |-> {"name", "opacity"}, defaults |-> EmptyDict]]

Declared(n) == Listed[n].required \cup DOMAIN Listed[n].defaults

----------------------------------------------------------------------------
(* C1 *)

\* C1, over the terminal states it names (the requests that came back with
\* a result; that every request does is C2): the result has one of the three
\* shapes {action, payload}, {response: string}, {error: string}, and every
\* failure came back in the error shape: {error: message} from the map
\* agent, {response: "Error: ..."} from the greeting agent.
C1_Original ==
    \A c \in DOMAIN pc : Done(c) /\ Returned(c) =>
        /\ \/ DOMAIN Result(c) = {"action", "payload"}
           \/ DOMAIN Result(c) = {"response"}
           \/ DOMAIN Result(c) = {"error"}
        /\ Failure(c) /\ IsGeo(c) =>
              DOMAIN Result(c) = {"error"} /\ IsText(Result(c).error)
        /\ Failure(c) /\ IsHello(c) =>
              DOMAIN Result(c) = {"response"} /\ IsErrorText(Result(c).response)

----------------------------------------------------------------------------
(* C2 *)

\* what the try body of the request's ask did with the provider's outcome
Tried(c) ==
    IF IsGeo(c) THEN GeoTry(geo_agent, response[c])
    ELSE HelloTry(hello_agent, response[c])

\* the agent's error result for an exception with message text msg
ErrorResult(c, msg) ==
    IF IsGeo(c) THEN [action |-> "error", payload |-> [message |-> PyStr(msg)]]
    ELSE [response |-> PyStr(<<"Error: ">> \o msg)]

\* C2 as stated: ask never raises to its caller.  Whatever the provider's
\* outcome, a finished request returned a result, and when a statement of
\* the try body raised any exception the result is the agent's error result
\* carrying that exception's message text.
C2_Original ==
    \A c \in DOMAIN pc : Done(c) =>
        /\ Returned(c)
        /\ "raise" \in DOMAIN Tried(c) =>
              Result(c) = ErrorResult(c, Tried(c).raise.msg)

\* the classes outside Exception among the exceptions the provider's
\* outcomes hold
Uncaught == {"KeyboardInterrupt", "SystemExit", "CancelledError", "BaseExceptionGroup"}

\* C2 amended.  An instance of Exception raised inside the try (by the
\* completion call, by reading the reply, by calling the implementation) is
\* caught: ask returned the agent's error result carrying that exception's
\* message text.  What json.loads raises on the argument text is caught by
\* the inner handler and is not reported: the request ended as it ends with
\* the argument text {}.  Two kinds of exception leave ask: one of a class
\* outside Exception that leaves the completion call, and the TypeError of
\* the loop over a history that cannot be iterated, which is raised before
\* the try and before anything is sent or called.  In every other case ask
\* returned.
C2_ExceptionsCaught ==
    \A c \in DOMAIN pc : Done(c) =>
        /\ Unsent(c) =>
              /\ IsGeo(c)
              /\ outcome[c] =
                    [raise |-> [exc |-> "TypeError",
                                msg |-> <<"'", TypeName(call[c].history),
                                          "' object is not iterable">>]]
              /\ invoked[c] = <<>>
        /\ ~Unsent(c) =>
              LET t == Tried(c) IN
              /\ "raise" \notin DOMAIN t => Returned(c)
              /\ "raise" \in DOMAIN t /\ IsException(t.raise) =>
                    /\ Returned(c)
                    /\ Result(c) = ErrorResult(c, t.raise.msg)
              /\ "raise" \in DOMAIN t /\ ~IsException(t.raise) =>
                    /\ outcome[c] = [raise |-> t.raise]
                    /\ response[c] = [raise |-> t.raise]
              /\ "raise" \in DOMAIN response[c] =>
                    /\ "raise" \in DOMAIN t
                    /\ t.raise = response[c].raise
              /\ (~Returned(c)) <=>
                    /\ "raise" \in DOMAIN response[c]
                    /\ response[c].raise.exc \in Uncaught
              /\ Selects(c) /\ Malformed(FirstArguments(c)) =>
                    LET empty == WithArguments(response[c],
                                               JsonText(<<Punct("{"), Punct("}")>>))
                    IN  /\ Returned(c)
                        /\ Result(c) #
                              ErrorResult(c, json_loads(FirstArguments(c)).raise.msg)
                        /\ outcome[c] =
                              Ended(IF IsGeo(c) THEN GeoAsk(geo_agent, empty)
                                    ELSE HelloAsk(hello_agent, empty))

\* two requests are finished: in one a registered map tool was selected with
\* arguments that are JSON but no object, calling it raised TypeError and ask
\* returned the error result; the other was interrupted in the completion
\* call and KeyboardInterrupt left ask
C2_Witness ==
    \E c, d \in DOMAIN pc :
        /\ KnownTool(c) /\ IsGeo(c)
        /\ "ret" \in DOMAIN json_loads(FirstArguments(c))
        /\ "list" \in DOMAIN json_loads(FirstArguments(c)).ret
        /\ "raise" \in DOMAIN Tried(c)
        /\ Tried(c).raise.exc = "TypeError"
        /\ Returned(c)
        /\ Result(c).action = "error"
        /\ Done(d)
        /\ response[d] = [raise |-> [exc |-> "KeyboardInterrupt", msg |-> <<"">>]]
        /\ outcome[d] = [raise |-> [exc |-> "KeyboardInterrupt", msg |-> <<"">>]]

\* a request was left by the TypeError of the loop over the history None
C2_UnsentReached ==
    \E c \in DOMAIN pc :
        /\ Unsent(c)
        /\ outcome[c] =
              [raise |-> [exc |-> "TypeError",
                          msg |-> <<"'", "NoneType", "' object is not iterable">>]]

\* set_terrain was selected with an argument text that is not JSON and the
\* request came back with the tool's instruction, not with an error
C2_SwallowedReached ==
    \E c \in DOMAIN pc :
        /\ KnownTool(c) /\ IsGeo(c)
        /\ FirstName(c) = "set_terrain"
        /\ Malformed(FirstArguments(c))
        /\ Returned(c)
        /\ Result(c).action = "set_terrain"

----------------------------------------------------------------------------
(* C3 *)

\* C3: for each of the eleven map tools, selected with an argument object that
\* supplies its required parameters and only parameters it declares, the map
\* agent returns exactly {action: the tool's name, payload: the arguments with
\* every omitted optional parameter at its listed default}; zoom_to with
\* {"zoom": 5} returns exactly {action: "zoom_to", payload: {zoom: 5}}.
C3_ToolResult ==
    \A c \in DOMAIN pc : Selects(c) /\ IsGeo(c) =>
        LET n == FirstName(c)
            a == FirstArguments(c)
        IN  /\ ( /\ n \in DOMAIN Listed
                 /\ IsObject(a)
                 /\ Listed[n].required \subseteq Keys(a)
                 /\ Keys(a) \subseteq Declared(n) )
               => /\ Returned(c)
                  /\ Result(c) =
                        [action |-> n,
                         payload |-> [p \in Declared(n) |->
                                         IF p \in Keys(a) THEN DictGet(Items(a), p)
                                         ELSE Listed[n].defaults[p]]]
            /\ ( /\ n = "zoom_to"
                 /\ IsObject(a)
                 /\ Items(a) = <<<<"zoom", PyInt(5)>>>> )
               => /\ Returned(c)
                  /\ Result(c) = [action |-> "zoom_to", payload |-> [zoom |-> PyInt(5)]]

\* fly_to was selected with longitude and latitude only, and came back with
\* both and zoom at 12
C3_Witness ==
    \E c \in DOMAIN pc :
        /\ Selects(c) /\ IsGeo(c)
        /\ FirstName(c) = "fly_to"
        /\ IsObject(FirstArguments(c))
        /\ Keys(FirstArguments(c)) = {"longitude", "latitude"}
        /\ Returned(c)
        /\ Result(c) = [action |-> "fly_to",
                        payload |-> [longitude |-> PyInt(-122), latitude |-> PyInt(37),
                                     zoom |-> PyInt(12)]]

----------------------------------------------------------------------------
(* C4 *)

\* C4: when the first proposed call names a tool the agent has not registered,
\* ask returns (does not raise) its error result, the message contains that
\* name, and no implementation was called, whatever the argument text.
C4_UnknownTool ==
    \A c \in DOMAIN pc : UnknownTool(c) =>
        /\ Returned(c)
        /\ invoked[c] = <<>>
        /\ IsGeo(c) =>
              /\ Result(c).action = "error"
              /\ IsText(Result(c).payload.message)
              /\ FirstName(c) \in Range(Result(c).payload.message.str)
        /\ IsHello(c) =>
              /\ IsErrorText(Result(c).response)
              /\ FirstName(c) \in Range(Result(c).response.str)

\* "teleport" was selected with an argument text that is not JSON
C4_Witness ==
    \E c \in DOMAIN pc :
        /\ UnknownTool(c) /\ IsGeo(c)
        /\ FirstName(c) = "teleport"
        /\ Malformed(FirstArguments(c))
        /\ Returned(c)
        /\ Result(c) = ErrorAction(<<"Tool '", "teleport", "' not found.">>)

----------------------------------------------------------------------------
(* C5 *)

\* C5: when a registered tool is selected with an argument text that is not
\* JSON, or with none or an empty one, ask calls the implementation with no
\* arguments and returns: a map tool without required parameters
\* (get_layer_names, remove_terrain, set_terrain) gives its instruction with
\* the defaults, a tool with required parameters gives the error result; the
\* result is the one the argument text {} gives.
C5_MalformedArguments ==
    \A c \in DOMAIN pc :
        KnownTool(c) /\ (Absent(FirstArguments(c)) \/ Malformed(FirstArguments(c))) =>
            LET n == FirstName(c)
                empty == WithArguments(response[c], JsonText(<<Punct("{"), Punct("}")>>))
            IN  /\ Returned(c)
                /\ invoked[c] = <<Registry(c)[n]>>
                /\ IsGeo(c) =>
                      /\ n \in {"get_layer_names", "remove_terrain", "set_terrain"} =>
                            Result(c) = [action |-> n, payload |-> Listed[n].defaults]
                      /\ Listed[n].required # {} =>
                            /\ Result(c).action = "error"
                            /\ IsText(Result(c).payload.message)
                      /\ Result(c) = GeoAsk(geo_agent, empty).ret
                /\ IsHello(c) =>
                      /\ IsErrorText(Result(c).response)
                      /\ Result(c) = HelloAsk(hello_agent, empty).ret

\* set_terrain was selected with the text: not json, and came back with the
\* default exaggeration
C5_Witness ==
    \E c \in DOMAIN pc :
        /\ KnownTool(c) /\ IsGeo(c)
        /\ FirstName(c) = "set_terrain"
        /\ FirstArguments(c) = JsonText(<<Word("not"), Space(1), Word("json")>>)
        /\ Returned(c)
        /\ Result(c) = [action |-> "set_terrain",
                        payload |-> [exaggeration |-> PyFloat(1, 0)]]

----------------------------------------------------------------------------
(* C6 *)

\* C6: the messages ask sends are, in order: the system prompt, every message
\* of the history as it was passed, the user message holding the query; the
\* history itself is left as it was.  History [user "hi", assistant "hello"]
\* with query "zoom in" is sent as [system, user "hi", assistant "hello",
\* user "zoom in"].  The greeting agent, which takes no history, sends
\* [system, user query].
C6_MessageOrder ==
    \A c \in DOMAIN pc : pc[c] = "sent" =>
        LET m == request[c].messages
            q == call[c].query
        IN  /\ IsGeo(c) =>
                  LET h == call[c].history IN
                  /\ Len(m) = Len(h) + 2
                  /\ m[1] = [role |-> "system", content |-> GeoSystemPrompt]
                  /\ \A i \in 1..Len(h) : m[i + 1] = h[i]
                  /\ m[Len(m)] = [role |-> "user", content |-> q]
                  /\ call[c].history_after = h
                  /\ ( /\ h = <<[role |-> "user", content |-> "hi"],
                                [role |-> "assistant", content |-> "hello"]>>
                       /\ q = "zoom in" )
                     => m = <<[role |-> "system", content |-> GeoSystemPrompt],
                              [role |-> "user", content |-> "hi"],
                              [role |-> "assistant", content |-> "hello"],
                              [role |-> "user", content |-> "zoom in"]>>
            /\ IsHello(c) =>
                  m = <<[role |-> "system", content |-> HelloSystemPrompt],
                        [role |-> "user", content |-> q]>>

\* the history [user "hi", assistant "hello"] was sent with query "zoom in"
C6_Witness ==
    \E c \in DOMAIN pc :
        /\ pc[c] = "sent" /\ IsGeo(c)
        /\ call[c].query = "zoom in"
        /\ call[c].history = <<[role |-> "user", content |-> "hi"],
                               [role |-> "assistant", content |-> "hello"]>>
        /\ Len(request[c].messages) = 4
        /\ request[c].messages[2].content = "hi"
        /\ request[c].messages[3].content = "hello"

----------------------------------------------------------------------------
(* C7 *)

\* C7: when the reply holds no tool selection (no tool_calls, None, or an
\* empty list) ask calls no implementation and returns the reply's content:
\* {response: content} from the greeting agent, {action: "chat_response",
\* payload: {message: content}} from the map agent.
C7_PlainReply ==
    \A c \in DOMAIN pc : Done(c) /\ PlainReply(response[c]) =>
        /\ Returned(c)
        /\ invoked[c] = <<>>
        /\ IsGeo(c) =>
              Result(c) = [action |-> "chat_response",
                           payload |-> [message |-> Content(response[c])]]
        /\ IsHello(c) => Result(c) = [response |-> Content(response[c])]

\* a reply with an empty tool_calls list and the content Hello!
C7_Witness ==
    \E c \in DOMAIN pc :
        /\ Done(c) /\ IsHello(c)
        /\ response[c] = Completed([content |-> PyStr(<<"Hello!">>),
                                    tool_calls |-> PyList(<<>>)])
        /\ Returned(c)
        /\ Result(c) = [response |-> PyStr(<<"Hello!">>)]

----------------------------------------------------------------------------
(* C8 *)

SpecNames(tool_specs) == [i \in 1..Len(tool_specs) |-> tool_specs[i].function.name]

SpecRequired(tool_spec) ==
    IF "required" \in DOMAIN tool_spec.function.parameters
    THEN Range(tool_spec.function.parameters.required)
    ELSE {}

Consistent(registry, tool_specs) ==
    /\ \A id \in DOMAIN registry :
          /\ registry[id] \in DOMAIN Signature
          /\ Cardinality({i \in 1..Len(tool_specs) : SpecNames(tool_specs)[i] = id}) = 1
    /\ \A i \in 1..Len(tool_specs) :
          /\ SpecNames(tool_specs)[i] \in DOMAIN registry
          /\ SpecRequired(tool_specs[i]) =
                RequiredParams(registry[SpecNames(tool_specs)[i]])

\* C8: in every reachable state the catalogs are as constructed and
\* consistent: each of the eleven supported names is registered with an
\* implementation, the advertised list holds exactly one definition per
\* registered name and none for any other name, and each definition's required
\* set is the set of parameters its implementation has no default for.
C8_CatalogConsistent ==
    /\ geo_agent = GeoAgent
    /\ hello_agent = HelloWorldAgent
    /\ DOMAIN geo_agent.tools = DOMAIN Listed
    /\ Len(geo_agent.tool_specs) = Cardinality(DOMAIN Listed)
    /\ Consistent(geo_agent.tools, geo_agent.tool_specs)
    /\ \A i \in 1..Len(geo_agent.tool_specs) :
          SpecRequired(geo_agent.tool_specs[i]) =
              Listed[SpecNames(geo_agent.tool_specs)[i]].required
    /\ Consistent(hello_agent.tool_functions, hello_agent.tool_specs)

\* one request has run to a failed invocation, another has advertised the
\* catalog to the provider, and the catalog still holds those eleven
\* definitions
C8_Witness ==
    \E c, d \in DOMAIN pc :
        /\ KnownTool(c) /\ ~Accepted(c) /\ IsGeo(c)
        /\ pc[d] = "sent" /\ IsGeo(d)
        /\ request[d].tools = geo_agent.tool_specs
        /\ Len(geo_agent.tool_specs) = 11

----------------------------------------------------------------------------
(* C9 *)

\* the reply reduced to its first proposed call
FirstAlone(o) ==
    Completed([content |-> Content(o), tool_calls |-> PyList(<<Proposed(o)[1]>>)])

\* C9: ask calls at most one implementation per request, and when the reply
\* proposes several tool calls the result and the implementation called are
\* those of the reply holding the first call alone.
C9_FirstCallOnly ==
    \A c \in DOMAIN pc : Done(c) =>
        /\ Len(invoked[c]) <= 1
        /\ Len(Proposed(response[c])) >= 2 =>
              LET alone == IF IsGeo(c) THEN GeoAsk(geo_agent, FirstAlone(response[c]))
                           ELSE HelloAsk(hello_agent, FirstAlone(response[c]))
              IN  /\ outcome[c] = Ended(alone)
                  /\ invoked[c] = alone.invoked

\* the reply proposed "greet", which the map agent does not know, and then a
\* valid zoom_to; the result is the error for "greet" and nothing was called
C9_Witness ==
    \E c \in DOMAIN pc :
        /\ Done(c) /\ IsGeo(c)
        /\ Len(Proposed(response[c])) = 2
        /\ FirstName(c) = "greet"
        /\ Proposed(response[c])[2] = ToolCall("zoom_to", ObjectText(<<"zoom">>))
        /\ invoked[c] = <<>>
        /\ Returned(c)
        /\ Result(c).action = "error"

----------------------------------------------------------------------------
(* C10 *)

\* C10: with requests of several clients interleaved in any order, the shared
\* default history and both catalogs stay as constructed, each running
\* request sends the messages of its own query and history and leaves that
\* history as it was, and each finished request ended as its own provider
\* outcome ends on the catalogs as constructed.
C10_Isolation ==
    /\ default_history = <<>>
    /\ geo_agent = GeoAgent
    /\ hello_agent = HelloWorldAgent
    /\ \A c \in DOMAIN pc :
          /\ pc[c] = "sent" /\ IsGeo(c) =>
                /\ call[c].default => call[c].history = <<>>
                /\ call[c].history_after = call[c].history
                /\ request[c] =
                      [messages |-> <<[role |-> "system", content |-> GeoSystemPrompt]>>
                                    \o call[c].history
                                    \o <<[role |-> "user", content |-> call[c].query]>>,
                       tools |-> GeoToolSpecs]
          /\ pc[c] = "sent" /\ IsHello(c) =>
                request[c] =
                    [messages |-> <<[role |-> "system", content |-> HelloSystemPrompt],
                                    [role |-> "user", content |-> call[c].query]>>,
                     tools |-> HelloWorldAgent.tool_specs]
          /\ Done(c) /\ IsGeo(c) =>
                /\ outcome[c] = Ended(GeoAsk(GeoAgent, response[c]))
                /\ invoked[c] = GeoAsk(GeoAgent, response[c]).invoked
          /\ Done(c) /\ IsHello(c) =>
                /\ outcome[c] = Ended(HelloAsk(HelloWorldAgent, response[c]))
                /\ invoked[c] = HelloAsk(HelloWorldAgent, response[c]).invoked

\* two requests overlap: one failed on an unknown tool while the other, with
\* the default history, is still waiting for the provider
C10_Witness ==
    \E c, d \in DOMAIN pc :
        /\ UnknownTool(c) /\ IsGeo(c)
        /\ Returned(c) /\ Result(c).action = "error"
        /\ pc[d] = "sent" /\ IsGeo(d) /\ call[d].default
        /\ request[d].messages =
              <<[role |-> "system", content |-> GeoSystemPrompt],
                [role |-> "user", content |-> call[d].query]>>

====
